---------------------------- MODULE Spec2Model ----------------------------
(***************************************************************************)
(* A model of cfbs' command layer (src/cfbs/commands.py): the manifest's   *)
(* build list, the mutating commands add / remove / clean / update /       *)
(* input / set-input behind the commit_after_command wrapper, project      *)
(* initialisation, and update's version decision.                          *)
(*                                                                         *)
(* A module record is a function from the keys it carries to their values, *)
(* so that `"added_by" not in this` is  ~HasField(this, "added_by").       *)
(* Strings that the code takes apart (versions) are sequences of           *)
(* one-character strings; all other strings are opaque.                    *)
(***************************************************************************)
EXTENDS Naturals, Integers, Sequences, FiniteSets, TLC

----------------------------------------------------------------------------
(* Bounds of the model *)

\* Longest build list Init draws.
MaxModules == 3
\* Most dependency edges in a build list Init draws.
MaxEdges == 2
\* Longest build list of the sessions that run every command.
MaxBuild == 2
\* Most identifiers on a command line.
MaxArgs == 2
\* Most numbers in a version string Init draws.
MaxParts == 3

----------------------------------------------------------------------------
(* Generic helpers *)

HasField(m, f) == f \in DOMAIN m

\* dict.get(key, default)
Get(m, f, default) == IF HasField(m, f) THEN m[f] ELSE default

\* m with key f set to v
WithField(m, f, v) == (f :> v) @@ m

Min(S) == CHOOSE x \in S : \A y \in S : x <= y

Range(s) == {s[i] : i \in 1..Len(s)}

\* list.remove(x): drops the first element equal to x
RemoveFirst(s, x) ==
    LET hits == {i \in 1..Len(s) : s[i] = x}
    IN  IF hits = {} THEN s
        ELSE LET k == Min(hits)
             IN  [i \in 1..(Len(s) - 1) |-> IF i < k THEN s[i] ELSE s[i + 1]]

RECURSIVE RemoveAll(_, _)
\* for module in to_remove: modules.remove(module)
RemoveAll(s, xs) ==
    IF xs = <<>> THEN s ELSE RemoveAll(RemoveFirst(s, Head(xs)), Tail(xs))

ModuleNames(modules) == {modules[i].name : i \in 1..Len(modules)}

----------------------------------------------------------------------------
(* cfbs.module.is_module_added_manually *)

ManualMarkers == {"cfbs add", "cfbs init"}

IsModuleAddedManually(added_by) == added_by \in ManualMarkers

----------------------------------------------------------------------------
(* Prune: _clean_unused_modules *)

\* The modules that list this one's name in their dependencies, by position.
Dependents(modules, i) ==
    {j \in 1..Len(modules) :
        /\ HasField(modules[j], "dependencies")
        /\ modules[i].name \in modules[j].dependencies}

RECURSIVE SomeoneNeedsMeMarkerIgnored(_, _, _)
\* _someone_needs_me without the is_module_added_manually test of line 531
SomeoneNeedsMeMarkerIgnored(modules, i, depth) ==
    LET this == modules[i]
    IN  IF ~HasField(this, "added_by")
        THEN "True"
        ELSE IF Dependents(modules, i) = {} THEN "False"
        ELSE IF depth = 0 THEN "RecursionError"
        ELSE SomeoneNeedsMeMarkerIgnored(modules, Min(Dependents(modules, i)), depth - 1)

RECURSIVE SomeoneNeedsMeFrom(_, _, _)
\* _someone_needs_me(this), this = modules[i]; depth is the number of nested
\* calls still possible.  The walk goes from a module to the FIRST module of
\* the list that depends on it, so a walk of more than Len(modules) nested
\* calls has come back to a module it already visited and never ends: Python
\* raises RecursionError.
SomeoneNeedsMeFrom(modules, i, depth) ==
    LET this == modules[i]
    IN  IF ~HasField(this, "added_by") \/ IsModuleAddedManually(this.added_by)
        THEN "True"
        ELSE IF Dependents(modules, i) = {} THEN "False"
        ELSE IF depth = 0 THEN "RecursionError"
        ELSE SomeoneNeedsMeFrom(modules, Min(Dependents(modules, i)), depth - 1)

SomeoneNeedsMe(modules, i) == SomeoneNeedsMeFrom(modules, i, Len(modules))

RECURSIVE UnusedModules(_, _)
\* the loop that fills to_remove, from position i on
UnusedModules(modules, i) ==
    IF i > Len(modules) THEN <<>>
    ELSE (IF SomeoneNeedsMe(modules, i) = "False" THEN <<modules[i]>> ELSE <<>>)
         \o UnusedModules(modules, i + 1)

\* The Outcome of an operation: a Result tuple, a bare exit code, the
\* CFBSReturnWithoutCommit signal, or an exception that propagates.
ResultOutcome(rc, changed, msg, files) ==
    [kind |-> "Result", rc |-> rc, changed |-> changed, msg |-> msg, files |-> files]
IntOutcome(rc) == [kind |-> "int", rc |-> rc]
ReturnWithoutCommit(rc) == [kind |-> "CFBSReturnWithoutCommit", rc |-> rc]
Raised(exception) == [kind |-> "raise", exception |-> exception]

\* what remove_command and the invariants keep of a run of prune
NoPrune ==
    [before |-> <<>>, config |-> <<>>, outcome |-> [kind |-> "none"], ran |-> FALSE,
     to_remove |-> <<>>, asked |-> FALSE, saved |-> FALSE]

\* _clean_unused_modules(config) with the user's answer to its one prompt.
\* before, config: the manifest it was given and the one it leaves;
\* to_remove: the modules listed; asked: the prompt was shown; saved:
\* config.save() was called.
CleanUnusedModules(config, answer) ==
    LET untouched(outcome) ==
            [before |-> config, config |-> config, outcome |-> outcome, ran |-> TRUE,
             to_remove |-> <<>>, asked |-> FALSE, saved |-> FALSE]
    IN  IF ~HasField(config, "build") \/ Len(config.build) = 0
        THEN untouched(IntOutcome(0))
        ELSE
        LET modules == config.build
            crashed == \E i \in 1..Len(modules) :
                          SomeoneNeedsMe(modules, i) = "RecursionError"
            to_remove == UnusedModules(modules, 1)
        IN  IF crashed THEN untouched(Raised("RecursionError"))
            ELSE IF to_remove = <<>> THEN untouched(ReturnWithoutCommit(0))
            ELSE IF answer
            THEN [before |-> config,
                  config |-> WithField(config, "build", RemoveAll(modules, to_remove)),
                  outcome |-> IntOutcome(0), ran |-> TRUE,
                  to_remove |-> to_remove, asked |-> TRUE, saved |-> TRUE]
            ELSE [before |-> config, config |-> config,
                  outcome |-> IntOutcome(0), ran |-> TRUE,
                  to_remove |-> to_remove, asked |-> TRUE, saved |-> FALSE]

----------------------------------------------------------------------------
(* remove_command *)

\* name.startswith(SUPPORTED_URI_SCHEMES)
MasterfilesRepository == "https://github.com/cfengine/masterfiles"

UriIdentifiers == {"https://u", MasterfilesRepository}
IsUri(name) == name \in UriIdentifiers

\* name.endswith(".cf") and not name.startswith("./"), with "./" + name
CfIdentifiers == {"p.cf"}
DotSlash(name) == IF name = "p.cf" THEN "./p.cf" ELSE name

\* _get_dependents(dependency): the names of the modules that list it
RECURSIVE DependentNames(_, _, _)
DependentNames(modules, dependency, i) ==
    IF i > Len(modules) THEN <<>>
    ELSE (IF dependency \in Get(modules[i], "dependencies", {})
          THEN <<modules[i].name>> ELSE <<>>)
         \o DependentNames(modules, dependency, i + 1)

GetDependents(modules, dependency) ==
    IF Len(modules) < 2 THEN <<>> ELSE DependentNames(modules, dependency, 1)

\* _get_module_by_name(name); exists is os.path.exists(name).  <<>> is None.
GetModuleByName(modules, name, exists) ==
    LET key == IF name \in CfIdentifiers /\ exists THEN DotSlash(name) ELSE name
        hits == {i \in 1..Len(modules) : modules[i].name = key}
    IN  IF hits = {} THEN <<>> ELSE <<modules[Min(hits)]>>

\* _get_modules_by_url(name)
RECURSIVE ModulesByUrlFrom(_, _, _)
ModulesByUrlFrom(modules, name, i) ==
    IF i > Len(modules) THEN <<>>
    ELSE (IF HasField(modules[i], "url") /\ modules[i].url = name
          THEN <<modules[i]>> ELSE <<>>)
         \o ModulesByUrlFrom(modules, name, i + 1)

GetModulesByUrl(modules, name) == ModulesByUrlFrom(modules, name, 1)

\* The locals of remove_command while it runs: modules is config["build"]
\* in memory, lines the entries of msg, inputs the input.json files on disk,
\* prompts what the user was asked and answered.
RemoveStart(config, inputs) ==
    [modules |-> config.build, lines |-> <<>>, files |-> <<>>, num_removed |-> 0,
     inputs |-> inputs, prompts |-> <<>>, error |-> "none"]

\* _remove_module_user_prompt(module) and the removal that follows "yes":
\* the two states the user's answer can lead to.
RemoveModulePrompt(st, module) ==
    LET ask(answer) == [q |-> "remove", subject |-> module.name,
                        dependents |-> GetDependents(st.modules, module.name),
                        answer |-> answer]
    IN  { [st EXCEPT !.prompts = Append(@, ask(TRUE)),
                     !.modules = RemoveFirst(@, module),
                     !.lines = Append(@, <<"Removed module", module.name>>),
                     !.num_removed = @ + 1],
          [st EXCEPT !.prompts = Append(@, ask(FALSE))] }

RECURSIVE RemoveMatches(_, _)
\* for module in matches: ...      (S: the states reached so far)
RemoveMatches(S, matches) ==
    IF matches = <<>> THEN S
    ELSE RemoveMatches(UNION {RemoveModulePrompt(st, Head(matches)) : st \in S},
                       Tail(matches))

\* lines 484-495: the input.json of the identifier, whatever it matched
RemoveInputData(st, name) ==
    IF st.inputs[name] = "none" THEN {st}
    ELSE LET ask(answer) == [q |-> "remove input", subject |-> name,
                             dependents |-> <<>>, answer |-> answer]
         IN  { [st EXCEPT !.prompts = Append(@, ask(TRUE)),
                          !.inputs = [@ EXCEPT ![name] = "none"],
                          !.files = Append(@, name),
                          !.lines = Append(@, <<"Removed input data for module", name>>)],
               [st EXCEPT !.prompts = Append(@, ask(FALSE))] }

\* One pass of the loop over to_remove, from state st.
RemoveOne(st, name) ==
    IF st.error # "none" THEN {st}
    ELSE IF IsUri(name)
    THEN LET matches == GetModulesByUrl(st.modules, name)
         IN  IF matches = <<>>
             THEN {[st EXCEPT !.error = "CFBSExitError"]}
             ELSE UNION {RemoveInputData(t, name) : t \in RemoveMatches({st}, matches)}
    ELSE LET found(exists) == GetModuleByName(st.modules, name, exists)
             after(exists) ==
                 IF found(exists) = <<>> THEN {st}
                 ELSE RemoveModulePrompt(st, found(exists)[1])
             reached == IF name \in CfIdentifiers
                        THEN after(TRUE) \cup after(FALSE) ELSE after(FALSE)
         IN  UNION {RemoveInputData(t, name) : t \in reached}

RECURSIVE RemoveLoop(_, _)
RemoveLoop(S, to_remove) ==
    IF to_remove = <<>> THEN S
    ELSE RemoveLoop(UNION {RemoveOne(st, Head(to_remove)) : st \in S}, Tail(to_remove))

\* lines 497-502
RemoveMessage(st) ==
    IF Len(st.lines) > 1
    THEN <<<<"Removed modules", st.num_removed>>>> \o st.lines
    ELSE st.lines

\* What an operation leaves behind: the manifest and the input files on disk,
\* its Outcome, the commits created while it ran, what prune did inside it,
\* the prompts it showed and what it reported for each target.
OpResult(config, inputs, outcome, commits, prune, prompts, log) ==
    [config |-> config, inputs |-> inputs, outcome |-> outcome,
     commits |-> commits, prune |-> prune, prompts |-> prompts, log |-> log]

PrunePrompts(p) ==
    IF p.asked
    THEN <<[q |-> "clean", subject |-> "", dependents |-> <<>>,
            answer |-> p.saved]>>
    ELSE <<>>

\* lines 504-510 with prune called through clean_command, its own wrapper
\* included, so that a prune that returns 0 is committed by itself
RemoveFinishWrappedPrune(config, st) ==
    LET saved == WithField(config, "build", st.modules)
        result == ResultOutcome(0, Len(st.lines) > 0, RemoveMessage(st), st.files)
        own(p) == IF p.outcome = IntOutcome(0) THEN 1 ELSE 0
    IN  IF st.error # "none"
        THEN {OpResult(config, st.inputs, Raised(st.error), 0, NoPrune, st.prompts, <<>>)}
        ELSE IF st.num_removed = 0
        THEN {OpResult(saved, st.inputs, result, 0, NoPrune, st.prompts, <<>>)}
        ELSE { OpResult(p.config, st.inputs,
                        IF p.outcome.kind = "raise" THEN p.outcome ELSE result,
                        own(p), p, st.prompts \o PrunePrompts(p), <<>>)
               : p \in {CleanUnusedModules(saved, answer) : answer \in BOOLEAN} }

\* lines 504-510, from a final state of the loop
RemoveFinish(config, st) ==
    LET saved == WithField(config, "build", st.modules)
        result == ResultOutcome(0, Len(st.lines) > 0, RemoveMessage(st), st.files)
    IN  IF st.error # "none"
        THEN {OpResult(config, st.inputs, Raised(st.error), 0, NoPrune, st.prompts, <<>>)}
        ELSE IF st.num_removed = 0
        THEN {OpResult(saved, st.inputs, result, 0, NoPrune, st.prompts, <<>>)}
        ELSE { OpResult(p.config, st.inputs,
                        IF p.outcome.kind = "raise" THEN p.outcome ELSE result,
                        0, p, st.prompts \o PrunePrompts(p), <<>>)
               : p \in {CleanUnusedModules(saved, answer) : answer \in BOOLEAN} }

\* remove_command(to_remove): every result the user's answers can lead to
RemoveCommand(config, inputs, to_remove) ==
    IF ~HasField(config, "build")
    THEN {OpResult(config, inputs, Raised("CFBSExitError"), 0, NoPrune, <<>>, <<>>)}
    ELSE UNION {RemoveFinish(config, st)
                : st \in RemoveLoop({RemoveStart(config, inputs)}, to_remove)}


----------------------------------------------------------------------------
(* The transaction wrapper: cfbs.git_magic.commit_after_command *)

\* The wrapper around an operation that left op behind.  A Result commits
\* iff its changed flag is set; a bare exit code is a Result whose flag is at
\* its default (true) and commits when the command succeeded; the
\* CFBSReturnWithoutCommit signal returns its value without a commit; any
\* other exception passes through.
CommitAfterCommand(op) ==
    LET o == op.outcome
        commit == CASE o.kind = "Result" -> o.changed
                    [] o.kind = "int" -> o.rc = 0
                    [] OTHER -> FALSE
        exit == IF o.kind = "raise" THEN o.exception ELSE o.rc
    IN  [config |-> op.config, inputs |-> op.inputs, outcome |-> o,
         commits |-> op.commits + (IF commit THEN 1 ELSE 0),
         exit |-> exit, prune |-> op.prune, prompts |-> op.prompts, log |-> op.log]

----------------------------------------------------------------------------
(* clean_command *)

CleanOperation(config, inputs) ==
    { OpResult(p.config, inputs, p.outcome, 0, p, PrunePrompts(p), <<>>)
      : p \in {CleanUnusedModules(config, answer) : answer \in BOOLEAN} }

CleanCommand(config, inputs) ==
    {CommitAfterCommand(op) : op \in CleanOperation(config, inputs)}

WrappedRemoveCommand(config, inputs, to_remove) ==
    {CommitAfterCommand(op) : op \in RemoveCommand(config, inputs, to_remove)}

----------------------------------------------------------------------------
(* The module index (cfbs.index.Index) and the manifest accessor *)

\* Index.translate_alias: an alias entry names the module it stands for
TranslateAlias(catalog, name) ==
    IF name \in DOMAIN catalog /\ HasField(catalog[name], "alias")
    THEN catalog[name].alias ELSE name

\* Index.get_module_object(name, added_by): the catalog's record under that
\* name, <<>> for None
GetModuleObject(catalog, name, added_by) ==
    IF name \notin DOMAIN catalog \/ HasField(catalog[name], "alias") THEN <<>>
    ELSE LET m == WithField(catalog[name], "name", name)
         IN  <<IF added_by = "<absent>" THEN m ELSE WithField(m, "added_by", added_by)>>

\* config.get_module_from_build(name): <<>> for None
GetModuleFromBuild(build, name) ==
    LET hits == {i \in 1..Len(build) : build[i].name = name}
    IN  IF hits = {} THEN <<>> ELSE <<build[Min(hits)]>>

\* a set of names as a list, in a fixed order
RECURSIVE AsList(_)
AsList(S) ==
    IF S = {} THEN <<>>
    ELSE LET x == CHOOSE y \in S : TRUE IN <<x>> \o AsList(S \ {x})

RECURSIVE ResolveAll(_, _, _)
\* the records of the names of a list, each added by `by`; <<>> for each
\* name the catalog does not hold
ResolveAll(catalog, names, by) ==
    IF names = <<>> THEN <<>>
    ELSE <<GetModuleObject(catalog, Head(names), by)>> \o ResolveAll(catalog, Tail(names), by)

RECURSIVE AddWithDependencies(_, _, _)
\* config.add_with_dependencies(objects): objects is a list of lookups
\* (<<record>> or <<>>).  A record whose name the build list holds is not
\* inserted again; a new one is appended and its dependencies follow, added
\* by it.  A name that resolves to nothing is an error.
AddWithDependencies(build, catalog, objects) ==
    IF objects = <<>> THEN [build |-> build, error |-> "none"]
    ELSE IF Head(objects) = <<>> THEN [build |-> build, error |-> "CFBSExitError"]
    ELSE LET m == Head(objects)[1]
         IN  IF m.name \in ModuleNames(build)
             THEN AddWithDependencies(build, catalog, Tail(objects))
             ELSE AddWithDependencies(
                      Append(build, m), catalog,
                      ResolveAll(catalog, AsList(Get(m, "dependencies", {})), m.name)
                          \o Tail(objects))

----------------------------------------------------------------------------
(* add_command *)

RECURSIVE RequestedObjects(_, _, _, _)
\* the records that the identifiers of to_add resolve to
RequestedObjects(catalog, provides, to_add, added_by) ==
    IF to_add = <<>> THEN <<>>
    ELSE LET id == Head(to_add)
             rest == RequestedObjects(catalog, provides, Tail(to_add), added_by)
         IN  IF IsUri(id)
             THEN [i \in 1..Len(AsList(DOMAIN provides)) |->
                      <<WithField(WithField(WithField(provides[AsList(DOMAIN provides)[i]],
                            "name", AsList(DOMAIN provides)[i]), "url", id),
                            "added_by", added_by)>>] \o rest
             ELSE <<GetModuleObject(catalog, TranslateAlias(catalog, id), added_by)>> \o rest

\* CFBSConfig.add_command(to_add, added_by, checksum)
ConfigAddCommand(config, catalog, provides, to_add, added_by) ==
    LET build == Get(config, "build", <<>>)
        r == AddWithDependencies(build, catalog,
                                 RequestedObjects(catalog, provides, to_add, added_by))
        added == [i \in 1..(Len(r.build) - Len(build)) |->
                     <<"Added module", r.build[Len(build) + i].name>>]
    IN  IF r.error # "none"
        THEN [config |-> config, outcome |-> Raised(r.error)]
        ELSE [config |-> WithField(config, "build", r.build),
              outcome |-> ResultOutcome(0, Len(added) > 0, added, <<>>)]

\* add_command(to_add, added_by): lines 394-398
AddOperation(config, inputs, catalog, provides, to_add, added_by) ==
    LET r == ConfigAddCommand(config, catalog, provides, to_add, added_by)
    IN  {OpResult(r.config, inputs, r.outcome, 0, NoPrune, <<>>, <<>>)}

AddCommand(config, inputs, catalog, provides, to_add, added_by) ==
    {CommitAfterCommand(op)
     : op \in AddOperation(config, inputs, catalog, provides, to_add, added_by)}

----------------------------------------------------------------------------
(* update_command: the version decision, lines 648-665 *)

Separators == {".", "-"}

Digits == <<"0", "1", "2", "3", "4", "5", "6", "7", "8", "9">>

DigitValue(c) == (CHOOSE k \in 1..10 : Digits[k] = c) - 1

RECURSIVE Split(_)
\* re.split(r"[-\.]", s): the pieces between the separators, empty ones kept
Split(s) ==
    LET seps == {i \in 1..Len(s) : s[i] \in Separators}
    IN  IF seps = {} THEN <<s>>
        ELSE <<SubSeq(s, 1, Min(seps) - 1)>> \o Split(SubSeq(s, Min(seps) + 1, Len(s)))

\* int(x) succeeds on a non-empty run of digits
IsNumber(x) == x # <<>> /\ \A i \in 1..Len(x) : x[i] \in Range(Digits)

RECURSIVE ToInt(_)
ToInt(x) ==
    IF x = <<>> THEN 0
    ELSE 10 * ToInt(SubSeq(x, 1, Len(x) - 1)) + DigitValue(x[Len(x)])

\* [int(n) for n in re.split(...)]: ok is false when int() raises ValueError
ParseVersion(s) ==
    LET parts == Split(s)
    IN  IF \E i \in 1..Len(parts) : ~IsNumber(parts[i])
        THEN [ok |-> FALSE, v |-> <<>>]
        ELSE [ok |-> TRUE, v |-> [i \in 1..Len(parts) |-> ToInt(parts[i])]]

\* a > b with the longer list always the greater one, the elements deciding
\* only between lists of one length
ListGreaterLongerWins(a, b) ==
    LET differ == {i \in 1..Len(a) : Len(a) = Len(b) /\ a[i] # b[i]}
    IN  IF Len(a) # Len(b) THEN Len(a) > Len(b)
        ELSE differ # {} /\ a[Min(differ)] > b[Min(differ)]

\* a > b on Python lists: the first position where they differ decides, and
\* with none the longer one is greater
ListGreater(a, b) ==
    LET common == IF Len(a) < Len(b) THEN Len(a) ELSE Len(b)
        differ == {i \in 1..common : a[i] # b[i]}
    IN  IF differ = {} THEN Len(a) > Len(b)
        ELSE a[Min(differ)] > b[Min(differ)]

\* What lines 648-667 decide for an installed and an index version string
VersionDecision(local, candidate) ==
    LET local_ver == ParseVersion(local)
        index_ver == ParseVersion(candidate)
    IN  IF ~local_ver.ok \/ ~index_ver.ok THEN "ValueError"
        ELSE IF local_ver.v = index_ver.v THEN "already up to date"
        ELSE IF ListGreater(local_ver.v, index_ver.v) THEN "older than current"
        ELSE "update"

----------------------------------------------------------------------------
(* update_command *)

\* cfbs.updates.update_module: every field of the old record but name and
\* added_by is replaced by the new source's data
UpdatedRecord(old, new) ==
    LET data == [k \in DOMAIN new \ {"name", "added_by"} |-> new[k]]
        kept == [k \in DOMAIN old \cap {"name", "added_by"} |-> old[k]]
    IN  kept @@ data

\* The locals of update_command while it runs; catalog is the name of the
\* index the last pass of the loop chose, log what was decided per target.
UpdateStart(config) ==
    [build |-> config.build, updated |-> <<>>, new_deps |-> <<>>,
     new_deps_added_by |-> <<>>, changes_made |-> FALSE, lines |-> <<>>,
     catalog |-> "none", error |-> "none", log |-> <<>>]

\* a skip that ends the loop instead of continuing with the next target
LoggedAndStopped(st, name, what) ==
    [st EXCEPT !.log = Append(@, <<name, what>>), !.error = "CFBSExitError"]

Logged(st, name, what) == [st EXCEPT !.log = Append(@, <<name, what>>)]

\* update_module(old_module, new_module, module_updates, update) and
\* updated.append(update), lines 669-673
ApplyUpdate(st, old, new) ==
    LET record == UpdatedRecord(old, new)
        k == Min({i \in 1..Len(st.build) : st.build[i] = old})
        fresh == AsList(Get(new, "dependencies", {}) \ ModuleNames(st.build))
        changed == record # old
    IN  [st EXCEPT !.build = [@ EXCEPT ![k] = record],
                   !.updated = Append(@, old.name),
                   !.new_deps = @ \o fresh,
                   !.new_deps_added_by = @ \o [i \in 1..Len(fresh) |-> <<fresh[i], old.name>>],
                   !.changes_made = @ \/ changed,
                   !.lines = IF changed THEN Append(@, <<"Updated module", old.name>>) ELSE @,
                   !.log = Append(@, <<old.name, "updated">>)]

\* lines 617-667 for a module found in the build list, under catalog c
UpdateFound(st0, index, remote, old, c, target) ==
    LET st == [st0 EXCEPT !.catalog = c]
    IN  IF HasField(old, "url")
        THEN { [st EXCEPT !.error = "CFBSNetworkError"],
               IF old.url \notin DOMAIN remote \/ old.name \notin DOMAIN remote[old.url]
               THEN Logged(st, old.name, "not provided")
               ELSE ApplyUpdate(st, old, remote[old.url][old.name]) }
        ELSE IF ~HasField(old, "version")
        THEN {Logged(st, old.name, "not updatable")}
        ELSE LET index_info == GetModuleObject(index[c], target, "<absent>")
             IN  IF index_info = <<>> THEN {Logged(st, old.name, "not in index")}
                 ELSE IF ~HasField(index_info[1], "version")
                 THEN {[st EXCEPT !.error = "KeyError"]}
                 ELSE LET decision == VersionDecision(old.version, index_info[1].version)
                      IN  IF decision = "ValueError"
                          THEN {[st EXCEPT !.error = "ValueError"]}
                          ELSE IF decision = "update"
                          THEN {ApplyUpdate(st, old, index_info[1])}
                          ELSE {Logged(st, old.name, decision)}

CatalogOf(old) == IF HasField(old, "index") THEN old.index ELSE "default"

\* One pass of the loop over to_update (lines 587-673).  asserts: the
\* interpreter checks assert statements (it does unless run with -O).
UpdateOne(st, index, remote, target, asserts) ==
    IF st.error # "none" THEN {st}
    ELSE LET old == GetModuleFromBuild(st.build, target)
         IN  IF old # <<>> THEN UpdateFound(st, index, remote, old[1], CatalogOf(old[1]), target)
             ELSE IF asserts THEN {[st EXCEPT !.error = "AssertionError"]}
             ELSE LET name == TranslateAlias(index["default"], target)
                      again == GetModuleFromBuild(st.build, name)
                  IN  IF again = <<>>
                      THEN {Logged([st EXCEPT !.catalog = "default"], name, "not in build")}
                      ELSE UpdateFound(st, index, remote, again[1], CatalogOf(again[1]), name)

RECURSIVE UpdateLoop(_, _, _, _, _)
UpdateLoop(S, index, remote, to_update, asserts) ==
    IF to_update = <<>> THEN S
    ELSE UpdateLoop(UNION {UpdateOne(st, index, remote, Head(to_update), asserts) : st \in S},
                    index, remote, Tail(to_update), asserts)

\* new_deps_added_by[d]: the last module recorded for d
AddedByOf(st, d) ==
    LET hits == {i \in 1..Len(st.new_deps_added_by) : st.new_deps_added_by[i][1] = d}
    IN  st.new_deps_added_by[CHOOSE i \in hits : \A j \in hits : j <= i][2]

\* lines 677-680: the new dependencies looked up in the index of the last pass
NewDependencyObjects(st, index) ==
    [i \in 1..Len(st.new_deps) |->
        GetModuleObject(index[st.catalog], st.new_deps[i], AddedByOf(st, st.new_deps[i]))]

\* lines 675-698 with the new dependencies appended to the build list as
\* they are, without add_with_dependencies' test for names already there
UpdateFinishAppendsAll(config, inputs, index, st) ==
    LET objects == NewDependencyObjects(st, index)
        missing == \E i \in 1..Len(objects) : objects[i] = <<>>
        error == IF st.error # "none" THEN st.error
                 ELSE IF missing THEN "CFBSExitError" ELSE "none"
        msg == IF st.changes_made /\ Len(st.updated) > 1
               THEN <<<<"Updated modules", Len(st.updated)>>>> \o st.lines
               ELSE st.lines
    IN  IF error # "none"
        THEN OpResult(config, inputs, Raised(error), 0, NoPrune, <<>>, st.log)
        ELSE OpResult(WithField(config, "build",
                                st.build \o [i \in 1..Len(objects) |-> objects[i][1]]),
                      inputs, ResultOutcome(0, st.changes_made, msg, <<>>),
                      0, NoPrune, <<>>, st.log)

\* lines 675-698, from a final state of the loop
UpdateFinish(config, inputs, index, st) ==
    LET added == IF st.new_deps = <<>> THEN [build |-> st.build, error |-> "none"]
                 ELSE AddWithDependencies(st.build, index["default"],
                                          NewDependencyObjects(st, index))
        error == IF st.error # "none" THEN st.error ELSE added.error
        msg == IF st.changes_made /\ Len(st.updated) > 1
               THEN <<<<"Updated modules", Len(st.updated)>>>> \o st.lines
               ELSE st.lines
    IN  IF error # "none"
        THEN OpResult(config, inputs, Raised(error), 0, NoPrune, <<>>, st.log)
        ELSE OpResult(WithField(config, "build", added.build), inputs,
                      ResultOutcome(0, st.changes_made, msg, <<>>), 0, NoPrune, <<>>, st.log)

RECURSIVE NamesOfBuild(_)
NamesOfBuild(build) ==
    IF build = <<>> THEN <<>> ELSE <<Head(build).name>> \o NamesOfBuild(Tail(build))

\* update_command(to_update)
UpdateOperation(config, inputs, index, remote, to_update, asserts) ==
    IF ~HasField(config, "build")
    THEN {OpResult(config, inputs, Raised("KeyError"), 0, NoPrune, <<>>, <<>>)}
    ELSE LET targets == IF to_update # <<>> THEN to_update ELSE NamesOfBuild(config.build)
         IN  {UpdateFinish(config, inputs, index, st)
              : st \in UpdateLoop({UpdateStart(config)}, index, remote, targets, asserts)}

UpdateCommand(config, inputs, index, remote, to_update, asserts) ==
    {CommitAfterCommand(op)
     : op \in UpdateOperation(config, inputs, index, remote, to_update, asserts)}

----------------------------------------------------------------------------
(* input_command and set_input_command *)

\* The input data a user can give
InputData == {"d1", "d2"}

\* One pass of input_command's loop: st = [inputs, files, do_commit, prompts]
InputOne(st, build, module_name) ==
    LET module == GetModuleFromBuild(build, module_name)
        ask(answer) == [q |-> "overwrite input", subject |-> module_name,
                        dependents |-> <<>>, answer |-> answer]
        written(t) == { [t EXCEPT !.inputs = [@ EXCEPT ![module_name] = d],
                                  !.files = Append(@, module_name),
                                  !.do_commit = TRUE] : d \in InputData }
    IN  IF module = <<>> \/ ~HasField(module[1], "input") THEN {st}
        ELSE IF st.inputs[module_name] # "none"
        THEN {[st EXCEPT !.prompts = Append(@, ask(FALSE))]}
             \cup written([st EXCEPT !.prompts = Append(@, ask(TRUE))])
        ELSE written(st)

RECURSIVE InputLoop(_, _, _)
InputLoop(S, build, args) ==
    IF args = <<>> THEN S
    ELSE InputLoop(UNION {InputOne(st, build, Head(args)) : st \in S}, build, Tail(args))

\* input_command(args)
InputOperation(config, inputs, args) ==
    { OpResult(config, st.inputs, ResultOutcome(0, st.do_commit, <<>>, st.files),
               0, NoPrune, st.prompts, <<>>)
      : st \in InputLoop({[inputs |-> inputs, files |-> <<>>, do_commit |-> FALSE,
                           prompts |-> <<>>]},
                         Get(config, "build", <<>>), args) }

InputCommand(config, inputs, args) ==
    {CommitAfterCommand(op) : op \in InputOperation(config, inputs, args)}

\* set_input_command(name, infile); data is what infile holds: input data,
\* text that is no JSON, or JSON that does not conform to the module's spec
SetInputOperation(config, inputs, name, data) ==
    LET module == GetModuleFromBuild(Get(config, "build", <<>>), name)
    IN  IF module = <<>> \/ ~HasField(module[1], "input") \/ data \notin InputData
        THEN {OpResult(config, inputs, IntOutcome(1), 0, NoPrune, <<>>, <<>>)}
        ELSE {OpResult(config, [inputs EXCEPT ![name] = data],
                       ResultOutcome(0, inputs[name] # data, <<>>, <<name>>),
                       0, NoPrune, <<>>, <<>>)}

SetInputCommand(config, inputs, name, data) ==
    {CommitAfterCommand(op) : op \in SetInputOperation(config, inputs, name, data)}

----------------------------------------------------------------------------
(* The inputs Init draws *)

NameOf == <<"a", "b", "c", "d", "e">>
Names == {NameOf[i] : i \in 1..MaxModules}

V090 == <<"0", ".", "9", ".", "0">>
V100 == <<"1", ".", "0", ".", "0">>
V110 == <<"1", ".", "1", ".", "0">>
V200 == <<"2", ".", "0", ".", "0">>

BaseModule(name) == [name |-> name, version |-> V100, commit |-> "c1"]

\* added_by of a module of an initial build list: none, a manual marker, or
\* the name of a dependent
AddedByKinds == {"<absent>", "cfbs add", "a"}

GraphModule(i, kind, deps) ==
    LET m0 == BaseModule(NameOf[i])
        m1 == IF kind = "<absent>" THEN m0 ELSE WithField(m0, "added_by", kind)
    IN  IF deps = {} THEN m1 ELSE WithField(m1, "dependencies", deps)

RECURSIVE SmallSubsets(_, _)
\* the subsets of S of at most k elements
SmallSubsets(S, k) ==
    IF k = 0 THEN {{}}
    ELSE LET P == SmallSubsets(S, k - 1) IN P \cup {X \cup {e} : X \in P, e \in S}

\* The dependency graphs on n modules of at most MaxEdges edges, an edge
\* <<i, j>> saying that the i-th module lists the j-th (self-dependencies
\* and cycles included)
EdgeSets(n) == SmallSubsets((1..n) \X (1..n), MaxEdges)

\* The build list of n modules named NameOf[1..n] with provenance kinds and
\* dependency graph E
GraphBuild(n, kinds, E) ==
    [i \in 1..n |-> GraphModule(i, kinds[i], {NameOf[j] : j \in {k \in 1..n : <<i, k>> \in E}})]

\* Where a module of an initial build list comes from and what it carries
SourceKinds ==
    {"registry", "no version", "newer", "url", "other url", "alt", "input",
     "dependent", "dependency", "self-dependent"}

\* the module after the i-th of a list of n, the first after the last
NextName(i, n) == NameOf[(i % n) + 1]

SourceModule(i, n, kind) ==
    LET m == WithField(BaseModule(NameOf[i]), "added_by", "cfbs add")
    IN  CASE kind = "registry" -> m
          [] kind = "no version" -> [name |-> NameOf[i], commit |-> "c1", added_by |-> "cfbs add"]
          [] kind = "newer" -> WithField(m, "version", V200)
          [] kind = "url" -> [name |-> NameOf[i], version |-> V200, commit |-> "c1",
                              url |-> "https://u", added_by |-> "cfbs add"]
          [] kind = "other url" -> WithField(m, "url", MasterfilesRepository)
          [] kind = "alt" -> WithField(m, "index", "alt")
          [] kind = "input" -> WithField(m, "input", "spec")
          [] kind = "dependent" -> WithField(m, "dependencies", {NextName(i, n)})
          [] kind = "dependency" -> WithField(m, "added_by", NextName(i, n))
          [] kind = "self-dependent" ->
                 WithField(WithField(m, "added_by", "zz"), "dependencies", {NameOf[i]})

SourceBuild(n, kinds) == [i \in 1..n |-> SourceModule(i, n, kinds[i])]

Project == [name |-> "Example project", git |-> TRUE]

Manifest(build) == WithField(Project, "build", build)

\* The identifiers a command line can name: two module names, a name no
\* module and no index has, an alias, a URL
Identifiers == {"a", "b", "zz", "al", "https://u"}

NoInputs == [x \in Identifiers \cup Range(NameOf) |-> "none"]

\* the input.json files on disk at the start: one for a module name and one
\* for a name no module has, none for the other identifiers
InputStates == {[NoInputs EXCEPT !["a"] = "d1", !["zz"] = "d1"]}

\* The default index and an alternative one
DefaultCatalog ==
    ("a" :> [version |-> V110, commit |-> "c2", dependencies |-> {"b"}])
    @@ ("b" :> [version |-> V100, commit |-> "c1"])
    @@ ("c" :> [version |-> V090, commit |-> "c0", dependencies |-> {"d"}])
    @@ ("d" :> [version |-> V110, commit |-> "c2", dependencies |-> {"c"}])
    @@ ("al" :> [alias |-> "a"])
    @@ ("masterfiles" :> [version |-> V100, commit |-> "c1"])

AltCatalog ==
    ("a" :> [version |-> V200, commit |-> "c3", dependencies |-> {"e"}, index |-> "alt"])
    @@ ("e" :> [version |-> V100, commit |-> "c1", index |-> "alt"])

Catalogs == ("default" :> DefaultCatalog) @@ ("alt" :> AltCatalog)

\* What the repository behind the URL provides
Remote ==
    ("https://u" :> (("a" :> [version |-> V110, commit |-> "c9", url |-> "https://u",
                              dependencies |-> {"b"}])
                     @@ ("b" :> [version |-> V200, commit |-> "c1", url |-> "https://u"])))
    @@ (MasterfilesRepository :> ("masterfiles" :> [commit |-> "c7"]))

\* The argument lists of a command: up to MaxArgs identifiers
ArgLists == UNION {[1..k -> Identifiers] : k \in 1..MaxArgs}

VARIABLES
    config,   \* the manifest on disk (cfbs.json)
    inputs,   \* identifier -> content of ./<identifier>/input.json, "none" if no file
    index,    \* index name -> catalog
    remote,   \* url -> the provides map of the repository there
    last,     \* the last command invocation: what ran, from where, and what came of it
    project,  \* cfbs init: where it stands, what it was given and what it left
    given,    \* the numbers the version strings of the manifest and the index were written from
    pipeline  \* cfbs download: the flags, the cache, where the loop stands and what it staged

vars == <<config, inputs, index, remote, last, project, given, pipeline>>

\* no download is running
NoPipeline == [pc |-> "none"]

\* a directory that holds an initialised project, with no cfbs init running
Initialised == [pc |-> "none", manifest |-> TRUE]

Invocation(cmd, args, r) ==
    [cmd |-> cmd, args |-> args, before |-> config, inputs_before |-> inputs,
     outcome |-> r.outcome, commits |-> r.commits, exit |-> r.exit,
     prune |-> r.prune, prompts |-> r.prompts, log |-> r.log]

NoInvocation ==
    [cmd |-> "none", args |-> <<>>, before |-> <<>>, inputs_before |-> <<>>,
     outcome |-> [kind |-> "none"], commits |-> 0, exit |-> 0,
     prune |-> NoPrune, prompts |-> <<>>, log |-> <<>>]

Init ==
    /\ \/ config = Project
       \/ \E n \in 0..MaxBuild : \E kinds \in [1..n -> SourceKinds] :
              config = Manifest(SourceBuild(n, kinds))
    /\ inputs \in InputStates
    /\ index = Catalogs
    /\ remote = Remote
    /\ last = NoInvocation
    /\ project = Initialised
    /\ pipeline = NoPipeline
    /\ given = <<>>

\* A command invocation is a process of its own: it starts from the files on
\* disk, which Init draws, and leaves its result r behind.
Idle == last.cmd = "none"

Run(cmd, args, r) ==
    /\ config' = r.config
    /\ inputs' = r.inputs
    /\ last' = Invocation(cmd, args, r)
    /\ UNCHANGED <<index, remote, project, given, pipeline>>

Add ==
    /\ Idle
    /\ \E to_add \in ArgLists :
        \E r \in AddCommand(config, inputs, index["default"],
                            remote["https://u"], to_add, "cfbs add") :
            Run("add", to_add, r)

Remove ==
    /\ Idle
    /\ \E to_remove \in ArgLists :
        \E r \in WrappedRemoveCommand(config, inputs, to_remove) :
            Run("remove", to_remove, r)

Clean ==
    /\ Idle
    /\ \E r \in CleanCommand(config, inputs) : Run("clean", <<>>, r)

Update ==
    /\ Idle
    /\ \E to_update \in ArgLists \cup {<<>>}, asserts \in BOOLEAN :
        \E r \in UpdateCommand(config, inputs, index, remote, to_update, asserts) :
            Run("update", to_update, r)

Input ==
    /\ Idle
    /\ \E args \in ArgLists :
        \E r \in InputCommand(config, inputs, args) : Run("input", args, r)

SetInput ==
    /\ Idle
    /\ \E name \in Identifiers, data \in InputData \cup {"not JSON", "not conforming"} :
        \E r \in SetInputCommand(config, inputs, name, data) :
            Run("set-input", <<name>>, r)

Next ==
    \/ Add
    \/ Remove
    \/ Clean
    \/ Update
    \/ Input
    \/ SetInput

Spec == Init /\ [][Next]_vars

----------------------------------------------------------------------------
(* Prune over every small dependency graph *)

InitPrune ==
    /\ \/ config = Project
       \/ \E n \in 0..MaxModules : \E kinds \in [1..n -> AddedByKinds], E \in EdgeSets(n) :
              config = Manifest(GraphBuild(n, kinds, E))
    /\ inputs = NoInputs
    /\ index = Catalogs
    /\ remote = Remote
    /\ last = NoInvocation
    /\ project = Initialised
    /\ pipeline = NoPipeline
    /\ given = <<>>

\* cfbs remove <name> for one module of the build list
RemoveNamed ==
    /\ Idle
    /\ \E name \in Names :
        \E r \in WrappedRemoveCommand(config, inputs, <<name>>) :
            Run("remove", <<name>>, r)

NextPrune ==
    \/ Clean
    \/ RemoveNamed

SpecPrune == InitPrune /\ [][NextPrune]_vars

----------------------------------------------------------------------------
(* update's version decision over version strings *)

\* The numbers a version is made of
VersionNumbers == {0, 2, 10}

\* str(n)
Decimal(n) == IF n < 10 THEN <<Digits[n + 1]>> ELSE <<Digits[(n \div 10) + 1], Digits[(n % 10) + 1]>>

RECURSIVE Written(_, _)
\* the version string of the numbers t joined by the separators seps
Written(t, seps) ==
    IF Len(t) = 1 THEN Decimal(t[1])
    ELSE Decimal(t[1]) \o <<seps[1]>> \o Written(Tail(t), Tail(seps))

\* The versions of up to MaxParts numbers
VersionTuples == UNION {[1..k -> VersionNumbers] : k \in 1..MaxParts}

InitVersion ==
    /\ \E t \in VersionTuples, u \in VersionTuples :
         \E st \in [1..(Len(t) - 1) -> Separators], sep \in Separators :
            LET su == [i \in 1..(Len(u) - 1) |-> sep] IN
            /\ given = [installed |-> t, candidate |-> u]
            /\ config = Manifest(<<[name |-> "a", version |-> Written(t, st),
                                   commit |-> "c1", added_by |-> "cfbs add"]>>)
            /\ index = [Catalogs EXCEPT !["default"] =
                           "a" :> [version |-> Written(u, su), commit |-> "c2"]]
    /\ inputs = NoInputs
    /\ remote = Remote
    /\ last = NoInvocation
    /\ project = Initialised
    /\ pipeline = NoPipeline

\* cfbs update, of every module or of the one named
UpdateVersion ==
    /\ Idle
    /\ \E to_update \in {<<>>, <<"a">>} :
         \E r \in UpdateCommand(config, inputs, index, remote, to_update, TRUE) :
            Run("update", to_update, r)

NextVersion ==
    \/ UpdateVersion

SpecVersion == InitVersion /\ [][NextVersion]_vars

----------------------------------------------------------------------------
(* init_command *)

MasterfilesUrl == MasterfilesRepository

\* --git, --masterfiles and --index as given on the command line
InitArgs ==
    [git : {"None", "yes", "no"},
     masterfiles : {"None", "no", "3.21.0", "master"},
     index : BOOLEAN]

InitProject ==
    /\ \E args \in InitArgs, manifest \in BOOLEAN, is_git \in BOOLEAN :
          /\ project = [pc |-> "start", args |-> args, manifest |-> manifest,
                        is_git |-> is_git, do_git |-> FALSE, rc |-> 0,
                        exception |-> "none", failed |-> "none", commits |-> 0]
          /\ config = IF manifest THEN Manifest(<<>>) ELSE <<>>
    /\ inputs = NoInputs
    /\ index = Catalogs
    /\ remote = Remote
    /\ last = NoInvocation
    /\ given = <<>>
    /\ pipeline = NoPipeline

Returned(rc, why) == [project EXCEPT !.pc = "done", !.rc = rc, !.failed = why]

\* an exception leaves the command; the process exits non-zero
Thrown(exception, why) ==
    [project EXCEPT !.pc = "done", !.rc = 1, !.exception = exception, !.failed = why]

\* lines 129-174: refuse an initialised directory, then settle do_git
InitStart ==
    /\ project.pc = "start"
    /\ \/ /\ project.manifest
          /\ project' = Thrown("CFBSUserError", "already initialized")
       \/ /\ ~project.manifest
          /\ \E git_ans \in BOOLEAN :
               LET do_git == IF project.args.git = "None" THEN git_ans
                             ELSE project.args.git = "yes"
               IN  project' = [project EXCEPT !.do_git = do_git,
                                              !.pc = IF do_git THEN "git" ELSE "write"]
    /\ UNCHANGED <<config, inputs, index, remote, last, given, pipeline>>

\* lines 176-211: git must exist, and the repository is created or configured
InitGit ==
    /\ project.pc = "git"
    /\ \E git_exists \in BOOLEAN, git_init_ok \in BOOLEAN, set_config_ok \in BOOLEAN :
         project' =
            IF ~git_exists THEN Returned(1, "git missing")
            ELSE IF ~project.is_git
            THEN IF git_init_ok THEN [project EXCEPT !.is_git = TRUE, !.pc = "write"]
                 ELSE Returned(1, "git init")
            ELSE IF set_config_ok THEN [project EXCEPT !.pc = "write"]
                 ELSE Returned(1, "git config")
    /\ UNCHANGED <<config, inputs, index, remote, last, given, pipeline>>

\* lines 143-152 and 213-218: the manifest is written
InitWrite ==
    /\ project.pc = "write"
    /\ config' = LET c == [name |-> "Example project", type |-> "policy-set",
                           description |-> "Example description", build |-> <<>>,
                           git |-> project.do_git]
                 IN  IF project.args.index THEN WithField(c, "index", "alt") ELSE c
    /\ project' = [project EXCEPT !.manifest = TRUE,
                                  !.pc = IF project.do_git THEN "commit" ELSE "masterfiles"]
    /\ UNCHANGED <<inputs, index, remote, last, given, pipeline>>

\* lines 220-230 without the os.unlink of line 229
InitCommitKeepsManifest ==
    /\ project.pc = "commit"
    /\ \/ project' = [project EXCEPT !.commits = @ + 1, !.pc = "masterfiles"]
       \/ project' = Returned(1, "commit")
    /\ UNCHANGED <<config, inputs, index, remote, last, given, pipeline>>

\* lines 220-230: the first commit; when it fails the manifest is unlinked
InitCommit ==
    /\ project.pc = "commit"
    /\ \/ /\ project' = [project EXCEPT !.commits = @ + 1, !.pc = "masterfiles"]
          /\ UNCHANGED config
       \/ /\ project' = [Returned(1, "commit") EXCEPT !.manifest = FALSE]
          /\ config' = <<>>
    /\ UNCHANGED <<inputs, index, remote, last, given, pipeline>>

\* lines 243-282: what to add on top of the new project; <<>> for nothing.
\* use_default and other are the answers to the two prompts, found is
\* whether ls_remote knows the branch.
InitToAdd(masterfiles, use_default, other) ==
    CASE masterfiles = "None" ->
             IF use_default THEN <<"masterfiles">>
             ELSE IF other = "" THEN <<>> ELSE <<other>>
      [] masterfiles = "no" -> <<>>
      [] masterfiles = "master" -> <<MasterfilesUrl, "masterfiles">>
      [] OTHER -> <<"masterfiles">>

\* lines 241-292: the policy set is added through add_command
InitMasterfiles ==
    /\ project.pc = "masterfiles"
    /\ \E use_default \in BOOLEAN, other \in {"", "a", "zz"}, found \in BOOLEAN :
         LET to_add == InitToAdd(project.args.masterfiles, use_default, other)
         IN  IF project.args.masterfiles = "master" /\ ~found
             THEN /\ project' = Thrown("CFBSExitError", "ls-remote")
                  /\ UNCHANGED <<config, inputs, last>>
             ELSE IF to_add = <<>>
             THEN /\ project' = Returned(0, "none")
                  /\ UNCHANGED <<config, inputs, last>>
             ELSE \E r \in AddCommand(config, inputs, index["default"],
                                      remote[MasterfilesUrl], to_add, "cfbs init") :
                     /\ config' = r.config
                     /\ inputs' = r.inputs
                     /\ last' = Invocation("add", to_add, r)
                     /\ project' = IF r.outcome.kind = "raise"
                                    THEN Thrown(r.outcome.exception, "add")
                                    ELSE Returned(r.outcome.rc,
                                                  IF r.outcome.rc = 0 THEN "none" ELSE "add")
    /\ UNCHANGED <<index, remote, given, pipeline>>

NextProject ==
    \/ InitStart
    \/ InitGit
    \/ InitWrite
    \/ InitCommit
    \/ InitMasterfiles

SpecInit == InitProject /\ [][NextProject]_vars

----------------------------------------------------------------------------
(* _download_dependencies *)

\* Longest build list the download sessions draw.
MaxStaged == 2

\* names of local modules: name.startswith("./")
LocalNameOf == <<"./a", "./b", "./c", "./d", "./e">>

IsLocal(name) == name \in Range(LocalNameOf)

\* is_a_commit_hash(commit): a full revision identifier, by shape
IsACommitHash(commit) == commit \in {"c0", "c1", "c2", "c3", "c7", "c9"}

ArchiveUrl == "https://u/m.tar.gz"
GitUrl == "https://u/m.git"
RepoUrl == "https://github.com/cfengine/modules"

\* strip_right(url, ".git")
StripRight(url) == IF url = GitUrl THEN "https://u/m" ELSE url

\* url.endswith(SUPPORTED_ARCHIVES)
EndsWithArchive(url) == url = ArchiveUrl

\* What a module of a build list to download looks like
DownloadKinds ==
    {"local", "no commit", "bad commit", "registry", "registry subdir", "unversioned",
     "archive", "archive subdir", "url", "url subdir", "index"}

DownloadModule(i, kind) ==
    LET m == [name |-> NameOf[i], commit |-> "c1", repo |-> RepoUrl, version |-> V100]
    IN  CASE kind = "local" -> [name |-> LocalNameOf[i]]
          [] kind = "no commit" -> [name |-> NameOf[i], repo |-> RepoUrl, version |-> V100]
          [] kind = "bad commit" -> WithField(m, "commit", "HEAD")
          [] kind = "registry" -> m
          [] kind = "registry subdir" -> WithField(m, "subdirectory", "sub")
          [] kind = "unversioned" -> [name |-> NameOf[i], commit |-> "c1", repo |-> RepoUrl]
          [] kind = "archive" -> WithField(m, "url", ArchiveUrl)
          [] kind = "archive subdir" ->
                 WithField(WithField(m, "url", ArchiveUrl), "subdirectory", "sub")
          [] kind = "url" -> [name |-> NameOf[i], commit |-> "c1", url |-> GitUrl]
          [] kind = "url subdir" ->
                 [name |-> NameOf[i], commit |-> "c1", url |-> GitUrl, subdirectory |-> "sub"]
          [] kind = "index" -> WithField(m, "index", "alt")

DownloadBuild(n, kinds) == [i \in 1..n |-> DownloadModule(i, kinds[i])]

\* The cache entry of a module (its commit_dir): "missing", "full" (there
\* with all it should hold) or "partial" (there without the module's
\* subdirectory)
CacheStates(module) ==
    IF IsLocal(module.name) THEN {"missing"}
    ELSE IF HasField(module, "subdirectory") THEN {"missing", "partial", "full"}
    ELSE {"missing", "full"}

\* os.path.exists(commit_dir), os.path.exists(module_dir)
CommitDirExists(entry) == entry # "missing"
ModuleDirExists(module, entry) ==
    IF HasField(module, "subdirectory") THEN entry = "full" ELSE entry # "missing"

\* the cache entry a fetch leaves: world.has_subdir says whether what was
\* fetched holds the declared subdirectory
Fetched(module, world) ==
    IF HasField(module, "subdirectory") /\ ~world.has_subdir THEN "partial" ELSE "full"

\* an error that is recorded while the loop goes on with the next module
AbortedAndGoesOn(pl, error) == [pl EXCEPT !.error = error, !.i = @ + 1]

\* the loop ends in an error
Aborted(pl, error) == [pl EXCEPT !.pc = "done", !.error = error]

\* lines 824-835: target, the annotations, cp, counter += 1.  cp of a path
\* that does not exist is left to cfbs.utils.cp: it fails, or it stages
\* nothing (world.cp_ok).
Stage(pl, module, i) ==
    [pl EXCEPT !.staged = Append(@, [position |-> i, counter |-> pl.counter,
                                     name |-> module.name,
                                     directory |-> <<pl.counter, module.name, module.commit>>]),
               !.counter = @ + 1,
               !.i = @ + 1]

\* a local module that does not take a number of its own
StageLocalKeepsCounter(pl, module, i) ==
    [pl EXCEPT !.staged = Append(@, [position |-> i, counter |-> pl.counter,
                                     name |-> module.name,
                                     directory |-> <<pl.counter, module.name, "local">>]),
               !.i = @ + 1]

\* lines 765-768: a local module
StageLocal(pl, module, i) ==
    [pl EXCEPT !.staged = Append(@, [position |-> i, counter |-> pl.counter,
                                     name |-> module.name,
                                     directory |-> <<pl.counter, module.name, "local">>]),
               !.counter = @ + 1,
               !.i = @ + 1]

\* lines 784-823: the cached path is missing, so the module is fetched;
\* world: what the network and the sources answer
Fetch(pl, module, i, world) ==
    LET url == StripRight(IF HasField(module, "url") THEN module.url ELSE module.repo)
        stale == CommitDirExists(pl.cache[i]) /\ HasField(module, "subdirectory")
        got(kind) == [pl EXCEPT !.fetches = Append(@, [position |-> i, kind |-> kind]),
                                !.cache[i] = Fetched(module, world)]
    IN  IF EndsWithArchive(url)
        THEN IF stale THEN Aborted(pl, "subdirectory not found in fetched archive")
             ELSE IF ~world.network THEN Aborted(pl, "fetch failed")
             ELSE got("archive")
        ELSE IF HasField(module, "index") \/ HasField(module, "url") \/ pl.ignore_versions
        THEN IF stale THEN Aborted(pl, "subdirectory not found in cloned repository")
             ELSE IF ~world.network THEN Aborted(pl, "fetch failed")
             ELSE got("clone")
        ELSE IF ~world.index_network THEN Aborted(pl, "index download failed")
        ELSE IF ~HasField(module, "version") \/ ~world.checksum
        THEN Aborted(pl, "cannot verify checksum")
        ELSE IF ~world.network THEN Aborted(pl, "fetch failed")
        ELSE got("registry")

\* One pass of the loop of lines 763-835, for the module at position i
DownloadOne(pl0, module, i, world) ==
    IF IsLocal(module.name) THEN StageLocal(pl0, module, i)
    ELSE IF ~HasField(module, "commit") THEN Aborted(pl0, "must have a commit property")
    ELSE IF ~IsACommitHash(module.commit) THEN Aborted(pl0, "not a commit reference")
    ELSE
    LET pl1 == IF pl0.redownload
               THEN [pl0 EXCEPT !.cache[i] = "missing", !.wiped = @ \cup {i}]
               ELSE pl0
        pl2 == IF ModuleDirExists(module, pl1.cache[i]) THEN pl1
               ELSE Fetch(pl1, module, i, world)
    IN  IF pl2.error # "none" THEN pl2
        ELSE IF ModuleDirExists(module, pl2.cache[i]) \/ world.cp_ok
        THEN Stage(pl2, module, i)
        ELSE Aborted(pl2, "cp failed")

\* What the network and the sources can answer
Worlds ==
    [has_subdir : BOOLEAN, checksum : BOOLEAN, network : BOOLEAN,
     index_network : BOOLEAN, cp_ok : BOOLEAN]

InitDownload ==
    /\ \E n \in 0..MaxStaged : \E kinds \in [1..n -> DownloadKinds] :
         LET build == DownloadBuild(n, kinds)
         IN  /\ config = Manifest(build)
             /\ \E cache \in [1..n -> {"missing", "partial", "full"}],
                   redownload \in BOOLEAN, ignore_versions \in BOOLEAN :
                   /\ \A i \in 1..n : cache[i] \in CacheStates(build[i])
                   /\ pipeline = [pc |-> "run", redownload |-> redownload,
                                  ignore_versions |-> ignore_versions,
                                  before |-> cache, cache |-> cache,
                                  i |-> 1, counter |-> 1, staged |-> <<>>,
                                  fetches |-> <<>>, wiped |-> {}, error |-> "none"]
    /\ inputs = NoInputs
    /\ index = Catalogs
    /\ remote = Remote
    /\ last = NoInvocation
    /\ project = Initialised
    /\ given = <<>>

\* the next module of the build list
DownloadStep ==
    /\ pipeline.pc = "run"
    /\ pipeline.i <= Len(config.build)
    /\ \E world \in Worlds :
         pipeline' = DownloadOne(pipeline, config.build[pipeline.i], pipeline.i, world)
    /\ UNCHANGED <<config, inputs, index, remote, last, project, given>>

\* the loop is over: download_command returns 0
DownloadReturn ==
    /\ pipeline.pc = "run"
    /\ pipeline.i > Len(config.build)
    /\ pipeline' = [pipeline EXCEPT !.pc = "done"]
    /\ UNCHANGED <<config, inputs, index, remote, last, project, given>>

NextDownload ==
    \/ DownloadStep
    \/ DownloadReturn

SpecDownload == InitDownload /\ [][NextDownload]_vars

----------------------------------------------------------------------------
(* Reachability as the specification defines it *)

\* a root: no added_by, or added_by is the manual marker
IsRoot(m) == ~HasField(m, "added_by") \/ m.added_by \in ManualMarkers

\* the j-th module lists the i-th in its dependencies
Lists(modules, j, i) ==
    /\ HasField(modules[j], "dependencies")
    /\ modules[i].name \in modules[j].dependencies

RECURSIVE ReachableFrom(_, _)
\* the least set of positions that holds R and every module that some other
\* module of the set lists
ReachableFrom(modules, R) ==
    LET more == {i \in 1..Len(modules) : \E j \in R : j # i /\ Lists(modules, j, i)}
    IN  IF more \subseteq R THEN R ELSE ReachableFrom(modules, R \cup more)

Reachable(modules) ==
    ReachableFrom(modules, {i \in 1..Len(modules) : IsRoot(modules[i])})

Unreachable(modules) == (1..Len(modules)) \ Reachable(modules)

\* the modules of a manifest, none if it has no build list
BuildOf(c) == IF HasField(c, "build") THEN c.build ELSE <<>>

\* the modules at the positions P, in build-list order
RECURSIVE AtPositions(_, _, _)
AtPositions(modules, P, i) ==
    IF i > Len(modules) THEN <<>>
    ELSE (IF i \in P THEN <<modules[i]>> ELSE <<>>) \o AtPositions(modules, P, i + 1)

\* prune ran inside the last command and came back (no exception left it)
PruneCameBack == last.prune.ran /\ last.prune.outcome.kind # "raise"

\* the last command removed a module record on the user's confirmation
RemovedAModule ==
    /\ last.cmd = "remove"
    /\ \E k \in 1..Len(last.prompts) :
          last.prompts[k].q = "remove" /\ last.prompts[k].answer

----------------------------------------------------------------------------
(* Claims on prune *)

\* C2: whenever prune comes back, the modules it listed for removal are
\* exactly the unreachable ones, and when the user confirmed, the build list
\* it leaves holds exactly the reachable modules in their order.
C2_PruneRemovesExactlyUnreachable ==
    PruneCameBack =>
        LET modules == BuildOf(last.prune.before)
        IN  /\ last.prune.to_remove = AtPositions(modules, Unreachable(modules), 1)
            /\ last.prune.saved =>
                  BuildOf(last.prune.config) = AtPositions(modules, Reachable(modules), 1)

\* a module with two dependents, the first unreachable and a later one a
\* root, has been pruned by clean although it is reachable
C2_ReachableModulePruned ==
    /\ last.cmd = "clean"
    /\ last.prune.saved
    /\ \E i \in Reachable(last.before.build) :
          /\ last.before.build[i] \in Range(last.prune.to_remove)
          /\ \E j \in 1..Len(last.before.build) :
                IsRoot(last.before.build[j]) /\ Lists(last.before.build, j, i)

\* C3: every run of prune ends with a verdict for every module: no run is
\* left by the recursion of the reachability check failing to end.
C3_PruneTerminates ==
    last.prune.ran => last.prune.outcome # Raised("RecursionError")

\* clean on a build list with a dependency cycle among non-roots (or a
\* non-root that lists itself) never got its verdicts
C3_CycleNeverEnds ==
    /\ last.cmd = "clean"
    /\ last.prune.outcome = Raised("RecursionError")
    /\ \E i \in 1..Len(last.before.build) :
          ~IsRoot(last.before.build[i]) /\ Lists(last.before.build, i, i)

\* C4: after any run of prune, by clean or inside remove and whatever the
\* answer, every root of the build list prune was given is still in the
\* build list on disk.
C4_RootNeverPruned ==
    last.prune.ran =>
        LET modules == BuildOf(last.prune.before)
        IN  \A i \in 1..Len(modules) :
               IsRoot(modules[i]) => modules[i] \in Range(BuildOf(config))

\* remove ran prune, the user confirmed, prune deleted a module and a
\* manually added root was in the list
C4_PrunedNextToRoot ==
    /\ last.cmd = "remove"
    /\ last.prune.saved
    /\ last.prune.to_remove # <<>>
    /\ \E i \in 1..Len(last.prune.before.build) :
          /\ HasField(last.prune.before.build[i], "added_by")
          /\ IsRoot(last.prune.before.build[i])

\* C5: a remove that deleted a module ran prune, returned its own Outcome
\* with changed = true, its own message and files, and made exactly one
\* commit.
C5_RemoveThenPruneOneCommit ==
    RemovedAModule =>
        /\ last.prune.ran
        /\ last.outcome.kind = "Result"
        /\ last.outcome.changed
        /\ last.outcome.msg # <<>>
        /\ last.commits = 1

\* remove saved the removal, prune then failed on a cycle, and the
\* invocation ended with no Outcome and no commit
C5_RemovalSavedWithoutCommit ==
    /\ RemovedAModule
    /\ last.prune.outcome = Raised("RecursionError")
    /\ config # last.before
    /\ last.commits = 0

\* C6: prune run on a manifest with no unreachable module (an empty build
\* list and a missing one included) raises the nothing-to-commit signal,
\* asks nothing, leaves the manifest as it was, and clean makes no commit.
C6_NothingToPruneSignals ==
    (last.prune.ran /\ Unreachable(BuildOf(last.prune.before)) = {}) =>
        /\ last.prune.outcome.kind = "CFBSReturnWithoutCommit"
        /\ ~last.prune.asked
        /\ last.prune.config = last.prune.before
        /\ last.cmd = "clean" => last.commits = 0

\* clean on an empty build list, or on a manifest without one, came back
\* with a plain exit code instead of the signal
C6_EmptyBuildPlainReturn ==
    /\ last.cmd = "clean"
    /\ BuildOf(last.before) = <<>>
    /\ last.prune.outcome = IntOutcome(0)

----------------------------------------------------------------------------
(* Claims on the commands *)

\* the manifest or an input file on disk is not what it was before the command
DiskChanged == config # last.before \/ inputs # last.inputs_before

C8_RemoveChangedIffDeleted ==
    last.cmd = "remove" =>
        /\ (last.outcome.kind = "Result" /\ last.outcome.changed) <=> DiskChanged
        /\ ( /\ Len(last.args) = 1
             /\ IsUri(last.args[1])
             /\ Len(last.prompts) = 2
             /\ \A k \in 1..2 : last.prompts[k].q = "remove" /\ ~last.prompts[k].answer )
           => /\ config = last.before
              /\ ~last.prune.ran
              /\ last.outcome.kind = "Result" /\ ~last.outcome.changed
              /\ last.commits = 0

\* remove deleted an input file and then met a URL that no module has: it
\* ended in CFBSExitError with the file gone and nothing reported
C8_InputFileDeletedThenError ==
    /\ last.cmd = "remove"
    /\ last.outcome = Raised("CFBSExitError")
    /\ inputs # last.inputs_before
    /\ last.commits = 0

\* C9: no two records of the build list have the same name.
C9_NamesUnique ==
    \A i, j \in 1..Len(BuildOf(config)) :
        BuildOf(config)[i].name = BuildOf(config)[j].name => i = j

\* update brought in a dependency twice over (the target named twice) and
\* the batched add inserted it once
C9_BatchedAddInsertedOnce ==
    /\ last.cmd = "update"
    /\ Len(last.args) = 2 /\ last.args[1] = last.args[2]
    /\ last.outcome.kind = "Result"
    /\ Len(BuildOf(config)) = Len(BuildOf(last.before)) + 1

----------------------------------------------------------------------------
(* Claims on the version decision and on init *)

RECURSIVE LexLess(_, _)
\* a < b in the lexicographic order of integer tuples, a strict prefix
\* being smaller
LexLess(a, b) ==
    IF a = <<>> THEN b # <<>>
    ELSE IF b = <<>> THEN FALSE
    ELSE IF Head(a) # Head(b) THEN Head(a) < Head(b)
    ELSE LexLess(Tail(a), Tail(b))

\* what update decided for module "a"
Verdict == last.log[1][2]

\* C10: with the installed version written from the numbers given.installed
\* and the index's from given.candidate, update applies the index's record
\* iff installed < candidate, reports "already up to date" iff the tuples
\* are equal and skips with the "older than current" warning iff
\* installed > candidate; a skipped module leaves the manifest as it was.
C10_VersionDecision ==
    last.cmd = "update" =>
        /\ Len(last.log) = 1
        /\ Verdict = "updated" <=> LexLess(given.installed, given.candidate)
        /\ Verdict = "already up to date" <=> given.installed = given.candidate
        /\ Verdict = "older than current" <=> LexLess(given.candidate, given.installed)
        /\ IF Verdict = "updated"
           THEN config.build[1].version = index["default"]["a"].version
           ELSE config = last.before

\* the installed version is a strict prefix of the index's, which was
\* written with a "-", and the update was applied
C10_PrefixUpdated ==
    /\ last.cmd = "update"
    /\ Len(given.installed) < Len(given.candidate)
    /\ given.installed = SubSeq(given.candidate, 1, Len(given.installed))
    /\ "-" \in Range(index["default"]["a"].version)
    /\ Verdict = "updated"
    /\ last.commits = 1

\* C7: an init that failed at its commit, or before it at git missing, git
\* init or git config, has returned a non-zero exit code and has left no
\* manifest file.
C7_FailedInitLeavesNoManifest ==
    (project.pc = "done"
     /\ project.failed \in {"git missing", "git init", "git config", "commit"}) =>
        /\ project.rc # 0
        /\ ~project.manifest
        /\ config = <<>>

\* the manifest had been written, the commit failed, and init is over
C7_CommitFailed ==
    /\ project.pc = "done"
    /\ project.failed = "commit"
    /\ project.do_git

----------------------------------------------------------------------------
(* Claims on update *)

\* what the source of module m offers for it: the entry of its name in the
\* provides map of its URL or in its catalog, <<>> when there is none
Candidate(m) ==
    IF HasField(m, "url")
    THEN IF m.url \in DOMAIN remote /\ m.name \in DOMAIN remote[m.url]
         THEN <<remote[m.url][m.name]>> ELSE <<>>
    ELSE LET catalog == index[IF HasField(m, "index") THEN m.index ELSE "default"]
         IN  IF m.name \in DOMAIN catalog /\ ~HasField(catalog[m.name], "alias")
             THEN <<catalog[m.name]>> ELSE <<>>

\* the numbers of a well-formed version string
NumbersOf(version) == ParseVersion(version).v

\* the installed version of m is greater than the one its source offers
WouldDowngrade(m) ==
    /\ HasField(m, "version")
    /\ Candidate(m) # <<>>
    /\ HasField(Candidate(m)[1], "version")
    /\ LexLess(NumbersOf(Candidate(m)[1].version), NumbersOf(m.version))

\* C11: update leaves the record of every module whose installed version is
\* greater than the version its source offers, index or URL, as it was.
C11_NeverDowngrades ==
    last.cmd = "update" =>
        \A i \in 1..Len(BuildOf(last.before)) :
            WouldDowngrade(last.before.build[i]) =>
                last.before.build[i] \in Range(BuildOf(config))

\* a URL-sourced module installed at a greater version has been given the
\* smaller version its repository provides
C11_UrlModuleDowngraded ==
    /\ last.cmd = "update"
    /\ \E i \in 1..Len(BuildOf(last.before)) :
          LET m == last.before.build[i]
          IN  /\ HasField(m, "url")
              /\ WouldDowngrade(m)
              /\ Len(config.build) >= i
              /\ config.build[i].name = m.name
              /\ config.build[i].version = Candidate(m)[1].version

\* the positions of the build list whose record the last command changed
ChangedRecords ==
    {i \in 1..Len(BuildOf(last.before)) :
        i > Len(BuildOf(config)) \/ config.build[i] # last.before.build[i]}

\* how many modules the Outcome of update reports as updated
ReportedUpdated ==
    IF ~last.outcome.changed THEN 0
    ELSE IF last.outcome.msg[1][1] = "Updated modules" THEN last.outcome.msg[1][2]
    ELSE 1

\* the record r carries the data of the source entry c and nothing else
\* beside name and added_by
CarriesDataOf(r, c) ==
    /\ DOMAIN r \ {"name", "added_by"} = DOMAIN c \ {"name", "added_by"}
    /\ \A k \in DOMAIN c \ {"name", "added_by"} : r[k] = c[k]

\* C12: a module that update applied an update to has its source's data in
\* every field but name and added_by, which it keeps; and update reports as
\* many modules updated as records have changed.
C12_UpdateReplacesAndCounts ==
    (last.cmd = "update" /\ last.outcome.kind = "Result") =>
        /\ \A k \in 1..Len(last.log) :
              last.log[k][2] = "updated" =>
                 \E i \in 1..Len(last.before.build) :
                    LET old == last.before.build[i]
                        new == config.build[i]
                    IN  /\ old.name = last.log[k][1]
                        /\ new.name = old.name
                        /\ HasField(new, "added_by") = HasField(old, "added_by")
                        /\ HasField(old, "added_by") => new.added_by = old.added_by
                        /\ CarriesDataOf(new, Candidate(old)[1])
        /\ ReportedUpdated = Cardinality(ChangedRecords)

\* update of two URL-sourced modules, one of which its repository provides
\* as installed: one record changed, two modules reported updated
C12_UnchangedCountedAsUpdated ==
    /\ last.cmd = "update"
    /\ last.args = <<>>
    /\ last.outcome.kind = "Result"
    /\ Cardinality(ChangedRecords) = 1
    /\ ReportedUpdated = 2

\* the targets of the last update: the arguments, or every module
UpdateTargets ==
    IF last.args # <<>> THEN last.args
    ELSE [i \in 1..Len(last.before.build) |-> last.before.build[i].name]

\* why update passes over a target and goes on
SkipVerdicts ==
    {"not updatable", "not in index", "not provided", "already up to date",
     "older than current"}

\* a target on which update can end in an error: one that is not in the
\* build list, one whose repository has to be cloned, one whose catalog
\* entry has no version
CanFail(target) ==
    LET hits == {i \in 1..Len(last.before.build) : last.before.build[i].name = target}
    IN  \/ hits = {}
        \/ \E i \in hits :
              LET m == last.before.build[i]
              IN  \/ HasField(m, "url")
                  \/ /\ HasField(m, "version")
                     /\ Candidate(m) # <<>>
                     /\ ~HasField(Candidate(m)[1], "version")

C14_FailedBatchKeepsCompleted ==
    (last.cmd = "update" /\ last.outcome.kind = "raise") =>
        \A k \in 1..Len(last.log) :
            last.log[k][2] = "updated" =>
                \A i \in 1..Len(last.before.build) :
                    last.before.build[i].name = last.log[k][1] =>
                        CarriesDataOf(config.build[i], Candidate(last.before.build[i])[1])

\* the first target was updated to new data, a later one failed, and the
\* manifest on disk is what it was before the command
C14_CompletedUpdateLost ==
    /\ last.cmd = "update"
    /\ last.outcome.kind = "raise"
    /\ Len(last.log) >= 1
    /\ Len(last.log) < Len(UpdateTargets)
    /\ last.log[1][2] = "updated"
    /\ \E i \in 1..Len(last.before.build) :
          /\ last.before.build[i].name = last.log[1][1]
          /\ ~CarriesDataOf(last.before.build[i], Candidate(last.before.build[i])[1])
    /\ config = last.before

----------------------------------------------------------------------------
(* Claims on the download pipeline *)

\* C15: the modules staged so far carry the sequence numbers 1, 2, 3, ... in
\* build-list order, without gap or repeat, a local module taking a number
\* like any other; and the staged directory of a remote module is made of
\* its sequence number, its name and its commit and of nothing else, so
\* that it is the same in every run on the same build list, whatever the
\* cache held and whatever the network answered.
C15_SequenceNumbersInOrder ==
    /\ pipeline.counter = Len(pipeline.staged) + 1
    /\ \A k \in 1..Len(pipeline.staged) :
         LET s == pipeline.staged[k]
             m == config.build[k]
         IN  /\ s.counter = k
             /\ s.position = k
             /\ s.name = m.name
             /\ ~IsLocal(m.name) => s.directory = <<k, m.name, m.commit>>

\* a remote module staged right after a local one, with the number 2
C15_RemoteStagedAfterLocal ==
    /\ pipeline.pc = "done"
    /\ pipeline.error = "none"
    /\ Len(pipeline.staged) = 2
    /\ IsLocal(config.build[1].name)
    /\ ~IsLocal(config.build[2].name)
    /\ pipeline.staged[2].counter = 2

\* the errors of a module that cannot be fetched as the manifest describes it
ManifestErrors ==
    {"must have a commit property", "not a commit reference", "cannot verify checksum"}

\* a remote module without a commit, or with a commit that is no full
\* revision identifier
BadCommit(module) ==
    /\ ~IsLocal(module.name)
    /\ \/ ~HasField(module, "commit")
       \/ ~IsACommitHash(module.commit)

\* a remote module that has to be downloaded from the registry, which has
\* no checksum for a module without a version
NoChecksumFor(module, k) ==
    /\ ~BadCommit(module)
    /\ ~IsLocal(module.name)
    /\ ~HasField(module, "url")
    /\ ~HasField(module, "index")
    /\ ~pipeline.ignore_versions
    /\ ~HasField(module, "version")
    /\ pipeline.redownload \/ pipeline.before[k] = "missing"

\* C16: a remote module without a commit, with a malformed commit or, where
\* the registry download applies, without a checksum entry is never fetched
\* and never staged, and no module after it in the build list is staged;
\* the pipeline that reports one of these errors has stopped at that module.
C16_AbortsOnFirstFailingModule ==
    /\ \A k \in 1..Len(config.build) :
         BadCommit(config.build[k]) \/ NoChecksumFor(config.build[k], k) =>
           /\ \A f \in Range(pipeline.fetches) : f.position < k
           /\ \A s \in Range(pipeline.staged) : s.position < k
           /\ pipeline.i <= k
    /\ pipeline.error \in ManifestErrors =>
         /\ pipeline.pc = "done"
         /\ \A f \in Range(pipeline.fetches) : f.position < pipeline.i
         /\ \A s \in Range(pipeline.staged) : s.position < pipeline.i

\* the first of two modules has no checksum entry: nothing was fetched and
\* nothing staged, although the second module sits in the cache
C16_NoChecksumStopsPipeline ==
    /\ pipeline.pc = "done"
    /\ pipeline.error = "cannot verify checksum"
    /\ pipeline.i = 1
    /\ Len(config.build) = 2
    /\ pipeline.before[2] = "full"
    /\ pipeline.staged = <<>>
    /\ pipeline.fetches = <<>>

\* the errors that name a module, its subdirectory and its archive or
\* repository
SubdirectoryErrors ==
    {"subdirectory not found in fetched archive",
     "subdirectory not found in cloned repository"}

\* the archives and clones of this run that came without the subdirectory
\* their module declares
FetchedWithoutSubdirectory ==
    {f \in Range(pipeline.fetches) :
        /\ f.kind \in {"archive", "clone"}
        /\ HasField(config.build[f.position], "subdirectory")
        /\ pipeline.cache[f.position] = "partial"}

\* C17: when the archive or the clone fetched in this run for a module with
\* a declared subdirectory does not hold that subdirectory, this run ends,
\* at that module, in the error that names the module and the archive or
\* repository.
C17_MissingSubdirectoryReportedAtOnce ==
    \A f \in FetchedWithoutSubdirectory :
        /\ pipeline.pc = "done"
        /\ pipeline.i = f.position
        /\ pipeline.error \in SubdirectoryErrors

\* the run that fetched an archive without the subdirectory is over and has
\* not reported the subdirectory
C17_FetchedRunEndsWithoutTheError ==
    /\ pipeline.pc = "done"
    /\ pipeline.error \notin SubdirectoryErrors
    /\ \E f \in FetchedWithoutSubdirectory :
         /\ f.kind = "archive"
         /\ pipeline.before[f.position] = "missing"

\* the kind of fetch the rule selects for a remote module
Selected(module) ==
    LET url == IF HasField(module, "url") THEN module.url ELSE module.repo
    IN  IF url = ArchiveUrl THEN "archive"
        ELSE IF HasField(module, "index") \/ HasField(module, "url")
                \/ pipeline.ignore_versions
        THEN "clone"
        ELSE "registry"

\* the positions the loop has dealt with: the modules it went past and the
\* one it stopped at
Handled ==
    {k \in 1..Len(config.build) :
        \/ k < pipeline.i
        \/ k = pipeline.i /\ pipeline.error # "none"}

\* the module at position k has to be fetched: its cached path, with the
\* subdirectory, was missing when the run began, or redownload wipes it
NeedsFetch(k) ==
    LET module == config.build[k]
    IN  /\ ~IsLocal(module.name)
        /\ ~BadCommit(module)
        /\ pipeline.redownload \/ ~ModuleDirExists(module, pipeline.before[k])

\* the fetch was tried and the network or the registry's answer stopped it
FetchRefused(k) ==
    /\ k = pipeline.i
    /\ pipeline.error \in {"fetch failed", "index download failed", "cannot verify checksum"}

\* C18: a remote module whose cached path is missing, or wiped by
\* redownload, is fetched exactly once, by the archive fetch iff its source
\* URL has an archive suffix, else by clone iff it has an index field or an
\* explicit url or version checking is disabled, else by the registry
\* download (unless the network or the registry's answer stops the fetch);
\* a module whose cached path exists is, without redownload, not fetched.
C18_SourceSelection ==
    /\ \A f \in Range(pipeline.fetches) :
         /\ NeedsFetch(f.position)
         /\ f.kind = Selected(config.build[f.position])
    /\ \A k \in Handled :
         NeedsFetch(k) /\ ~FetchRefused(k) =>
           Cardinality({j \in 1..Len(pipeline.fetches) :
                           pipeline.fetches[j].position = k}) = 1

\* the cached path of an archive module was missing (its commit directory
\* sat in the cache without the subdirectory) and the pipeline stopped
\* without fetching the archive
C18_MissingPathNotFetched ==
    /\ pipeline.pc = "done"
    /\ pipeline.error = "subdirectory not found in fetched archive"
    /\ ~pipeline.redownload
    /\ pipeline.before[pipeline.i] = "partial"
    /\ Selected(config.build[pipeline.i]) = "archive"
    /\ \A f \in Range(pipeline.fetches) : f.position # pipeline.i

----------------------------------------------------------------------------
(* Claims on remove *)

\* the names of the other modules of a build list that list the module
\* called name
OtherDependents(modules, name) ==
    {modules[j].name : j \in {k \in 1..Len(modules) :
                                 /\ modules[k].name # name
                                 /\ name \in Get(modules[k], "dependencies", {})}}

\* C19: the dependents shown in the prompt for a module matched by remove
\* are the names of the other modules of the build list that list it, each
\* once, whatever the length of the build list and also when the module
\* lists itself.
C19_PromptShowsOtherDependents ==
    /\ last.cmd = "remove"
    /\ Len(last.prompts) >= 1
    /\ last.prompts[1].q = "remove"
    => LET shown == last.prompts[1].dependents
       IN  /\ Range(shown) = OtherDependents(BuildOf(last.before), last.prompts[1].subject)
           /\ Len(shown) = Cardinality(Range(shown))

\* the prompt for a module that lists itself named the module among its
\* own dependents
C19_ModuleShownAsItsOwnDependent ==
    /\ last.cmd = "remove"
    /\ Len(last.prompts) >= 1
    /\ last.prompts[1].q = "remove"
    /\ last.prompts[1].subject \in Range(last.prompts[1].dependents)

\* the identifier matches a module of the build list remove started from,
\* by its name or, for a URL, by its url
Matched(name) ==
    \E i \in 1..Len(BuildOf(last.before)) :
        LET module == BuildOf(last.before)[i]
        IN  \/ module.name = name
            \/ IsUri(name) /\ HasField(module, "url") /\ module.url = name

\* the input files the command deleted
DeletedInputs ==
    {n \in DOMAIN inputs : last.inputs_before[n] # "none" /\ inputs[n] = "none"}

----------------------------------------------------------------------------
(* Claims on update's targets and its batched add *)

\* the name a target stands for: an alias of the project's default index
\* resolved (no module is known yet whose own index could apply)
ResolvedTarget(target) == TranslateAlias(index["default"], target)

\* the target names a module of the build list update started from
InBuildBefore(name) ==
    \E i \in 1..Len(BuildOf(last.before)) : BuildOf(last.before)[i].name = name

\* C21: update resolves every target's alias before it looks the target up
\* in the build list, and a target that names no module of the build list
\* even then is passed over with a warning while the batch goes on: the
\* command does not fail on it.
C21_UnknownTargetSkipped ==
    (last.cmd = "update" /\ HasField(last.before, "build")) =>
        /\ last.outcome # Raised("AssertionError")
        /\ \A k \in 1..Len(last.log) :
             LET name == ResolvedTarget(UpdateTargets[k])
             IN  /\ last.log[k][1] = name
                 /\ ~InBuildBefore(name) => last.log[k][2] = "not in build"
        /\ last.outcome.kind = "raise" /\ Len(last.log) < Len(UpdateTargets)
           => InBuildBefore(ResolvedTarget(UpdateTargets[Len(last.log) + 1]))

\* cfbs update zz a, with a in the build list and zz nowhere: the command
\* ended in an AssertionError at zz, and a was never looked at
C21_UnknownTargetStopsBatch ==
    /\ last.cmd = "update"
    /\ last.args = <<"zz", "a">>
    /\ InBuildBefore("a")
    /\ ~InBuildBefore("zz")
    /\ last.outcome = Raised("AssertionError")
    /\ last.log = <<>>
    /\ config = last.before

\* the record of the build list update started from that is called name
RecordBefore(name) ==
    last.before.build[Min({i \in 1..Len(last.before.build) :
                              last.before.build[i].name = name})]

\* the targets update brought up to date, each with the dependencies its
\* new data lists that the build list did not hold: <<module, dependency>>
Introduced ==
    {<<last.log[k][1], d>> :
        k \in {j \in 1..Len(last.log) : last.log[j][2] = "updated"},
        d \in Range(NameOf) \cup DOMAIN DefaultCatalog \cup DOMAIN AltCatalog}
    \cap {p \in (Range(NameOf) \X (Range(NameOf) \cup DOMAIN DefaultCatalog
                                      \cup DOMAIN AltCatalog)) :
            /\ InBuildBefore(p[1])
            /\ Candidate(RecordBefore(p[1])) # <<>>
            /\ p[2] \in Get(Candidate(RecordBefore(p[1]))[1], "dependencies", {})
            /\ ~InBuildBefore(p[2])}

\* the record the catalog of the introducing module holds for a dependency
OwnLookup(p) ==
    GetModuleObject(index[CatalogOf(RecordBefore(p[1]))], p[2], p[1])

\* C22: every dependency that an updated module newly introduces is taken
\* from the catalog of that module (its own index if it has one, else the
\* default): the record added to the build list is that catalog's record,
\* and the batched add fails only if that catalog lacks the dependency,
\* whatever target the loop handled last.
C22_NewDependencyFromOwnCatalog ==
    (last.cmd = "update" /\ HasField(last.before, "build")) =>
        /\ last.outcome.kind = "Result" =>
              \A p \in Introduced :
                  /\ OwnLookup(p) # <<>>
                  /\ \E i \in 1..Len(config.build) :
                        /\ config.build[i].name = p[2]
                        /\ \/ config.build[i] = OwnLookup(p)[1]
                           \/ \E q \in Introduced \ {p} :
                                 q[2] = p[2] /\ config.build[i] = OwnLookup(q)[1]
        /\ (last.outcome.kind = "raise" /\ Len(last.log) = Len(UpdateTargets)) =>
              \E p \in Introduced : OwnLookup(p) = <<>>

\* a module with an index of its own introduced a dependency that only its
\* index holds, another module was handled after it, and the batched add
\* failed
C22_LookedUpInLastTargetsCatalog ==
    /\ last.cmd = "update"
    /\ HasField(last.before, "build")
    /\ last.outcome.kind = "raise"
    /\ Len(last.log) = 2
    /\ last.log[1] = <<"a", "updated">>
    /\ last.log[2][1] = "b"
    /\ InBuildBefore("b")
    /\ <<"a", "e">> \in Introduced
    /\ OwnLookup(<<"a", "e">>) # <<>>
    /\ config = last.before

====
